---------------------------- MODULE Spec2Model ----------------------------
(***************************************************************************)
(* CausalKnowledgeTrace graph creation: the k-hop expander, the pre-flight *)
(* probe, the node consolidation and the DAG emission of                   *)
(* graph_creation/database_operations.py and graph_creation/analysis_core.py*)
(* as a state machine over a small predication store.                      *)
(*                                                                         *)
(* Strings that the code inspects character by character (node names,      *)
(* labels) are sequences of one-character strings; CUIs, predicates, pmids *)
(* and semantic types are opaque and stay TLA+ strings.                    *)
(***************************************************************************)
EXTENDS Integers, Sequences, FiniteSets, TLC

(***************************************************************************)
(* Bounds of the model.                                                    *)
(***************************************************************************)
\* largest number of predication rows in a store
MaxRows == 3
\* largest degree (number of hops) of a configuration
MaxDegree == 3
\* largest evidence threshold of a configuration
MaxThreshold == 2
MaxLen == 4

(***************************************************************************)
(* Small helpers.                                                          *)
(***************************************************************************)
Range(f) == {f[i] : i \in DOMAIN f}

\* the sequences that list the finite set S once each
Listings(S) == {f \in [1..Cardinality(S) -> S] : Range(f) = S}

RECURSIVE Flatten(_)
Flatten(ss) == IF ss = <<>> THEN <<>> ELSE Head(ss) \o Flatten(Tail(ss))

(***************************************************************************)
(* Character strings.                                                      *)
(***************************************************************************)
\* the characters the regular expression of clean_output_name replaces
SpecialChars == {" ", "-", ".", ",", "'", ":", ";", "(", ")", "/", "|"}

Str_unknown_node == <<"u","n","k","n","o","w","n","_","n","o","d","e">>
Str_Exposure_ == <<"E","x","p","o","s","u","r","e","_">>
Str_Outcome_ == <<"O","u","t","c","o","m","e","_">>

\* code points of the characters that occur in stored names (byte order)
Ord(ch) == CASE ch = " " -> 32 [] ch = "-" -> 45 [] ch = "." -> 46
             [] ch = "A" -> 65 [] ch = "B" -> 66 [] ch = "_" -> 95
             [] ch = "a" -> 97 [] ch = "b" -> 98 [] ch = "c" -> 99
             [] ch = "d" -> 100 [] ch = "e" -> 101 [] ch = "o" -> 111
             [] OTHER -> 127

RECURSIVE StrLeq(_, _)
\* s <= t in the byte order of text
StrLeq(s, t) == IF s = <<>> THEN TRUE
                ELSE IF t = <<>> THEN FALSE
                ELSE IF Ord(Head(s)) < Ord(Head(t)) THEN TRUE
                ELSE IF Ord(Head(s)) > Ord(Head(t)) THEN FALSE
                ELSE StrLeq(Tail(s), Tail(t))

RECURSIVE SubSpecialRuns(_)
\* re.sub(r'[...]+', '_', name): every maximal run of special characters
\* becomes one underscore
SubSpecialRuns(s) == IF s = <<>> THEN <<>>
                     ELSE IF Head(s) \in SpecialChars
                          THEN IF Tail(s) # <<>> /\ Head(Tail(s)) \in SpecialChars
                               THEN SubSpecialRuns(Tail(s))
                               ELSE <<"_">> \o SubSpecialRuns(Tail(s))
                          ELSE <<Head(s)>> \o SubSpecialRuns(Tail(s))

RECURSIVE CollapseUnderscores(_)
\* re.sub(r'_+', '_', cleaned)
CollapseUnderscores(s) == IF s = <<>> THEN <<>>
                          ELSE IF Head(s) = "_" /\ Tail(s) # <<>> /\ Head(Tail(s)) = "_"
                               THEN CollapseUnderscores(Tail(s))
                               ELSE <<Head(s)>> \o CollapseUnderscores(Tail(s))

RECURSIVE LStrip(_)
LStrip(s) == IF s # <<>> /\ Head(s) = "_" THEN LStrip(Tail(s)) ELSE s

RECURSIVE RStrip(_)
RStrip(s) == IF s # <<>> /\ s[Len(s)] = "_" THEN RStrip(SubSeq(s, 1, Len(s) - 1)) ELSE s

\* cleaned.strip('_')
StripUnderscores(s) == RStrip(LStrip(s))

\* clean_output_name with the underscores collapsed before the special
\* characters are replaced
clean_output_name_CollapseFirst(name) ==
    IF name = <<>> THEN <<>>
    ELSE LET cleaned == StripUnderscores(SubSpecialRuns(CollapseUnderscores(name)))
         IN  IF cleaned = <<>> THEN Str_unknown_node ELSE cleaned

\* DatabaseOperations.clean_output_name
clean_output_name(name) == IF name = <<>> THEN <<>>
                           ELSE LET cleaned == StripUnderscores(CollapseUnderscores(SubSpecialRuns(name)))
                                IN  IF cleaned = <<>> THEN Str_unknown_node ELSE cleaned


(***************************************************************************)
(* The predication table and the sentence table.                           *)
(***************************************************************************)
CUIs == {"C1", "C2", "C3", "C4"}

\* the characters of a CUI, for the f"Exposure_{cui}" fallback names
CuiChars(cui) == CASE cui = "C1" -> <<"C","1">> [] cui = "C2" -> <<"C","2">>
                   [] cui = "C3" -> <<"C","3">> [] OTHER -> <<"C","4">>

\* the pmids of the stores, in the order of their text
PmidsInOrder == <<"p1", "p2">>

\* the sentence of a publication a predication of the stores was extracted
\* from: the first sentence of p1, the second sentence of any other
SentenceIdOf(pm) == IF pm = "p1" THEN "s1" ELSE "s2"

\* one row of the predication table (spec section 4.2)
PredicationRow(sc, sn, ss, oc, on, os, pr, pm) ==
    [subject_cui |-> sc, subject_name |-> sn, subject_semtype |-> ss,
     object_cui |-> oc, object_name |-> on, object_semtype |-> os,
     predicate |-> pr, pmid |-> pm, sentence_id |-> SentenceIdOf(pm)]

\* one row of the sentence table
SentenceRow(pm, sid, text, cui, name) ==
    [pmid |-> pm, sentence_id |-> sid, sentence |-> text, cui |-> cui, name |-> name]

\* the surface name each CUI carries in the traversal stores
PlainName(cui) == CASE cui = "C1" -> <<"a">> [] cui = "C2" -> <<"b">>
                    [] cui = "C3" -> <<"c">> [] OTHER -> <<"d">>

\* rows for the traversal: a direct exposure -> outcome triple and a triple
\* two hops away, each under two pmids; a triple leaving the exposure, the
\* reverse of the direct triple, a self-loop three hops away, a triple of
\* another predicate, and a triple whose subject has an excluded semantic type
TraversalRows ==
    {PredicationRow(p[1], PlainName(p[1]), "dsyn", p[2], PlainName(p[2]), "dsyn", "CAUSES", pm) :
        p \in {<<"C1", "C2">>, <<"C3", "C4">>}, pm \in {"p1", "p2"}}
    \cup {PredicationRow("C1", <<"a">>, "dsyn", "C3", <<"c">>, "dsyn", "CAUSES", "p1"),
          PredicationRow("C2", <<"b">>, "dsyn", "C1", <<"a">>, "dsyn", "CAUSES", "p1"),
          PredicationRow("C4", <<"d">>, "dsyn", "C4", <<"d">>, "dsyn", "CAUSES", "p1"),
          PredicationRow("C1", <<"a">>, "dsyn", "C2", <<"b">>, "dsyn", "TREATS", "p1"),
          PredicationRow("C3", <<"c">>, "acty", "C2", <<"b">>, "dsyn", "CAUSES", "p1")}

\* rows in which a CUI of the first hop carries another surface name in a
\* triple that only the later hops retain: the direct triple, C1 -> C3 under
\* the plain name of C3, and a triple of C3 with itself under a second name
RenamingRows ==
    {PredicationRow("C1", <<"a">>, "dsyn", "C2", <<"b">>, "dsyn", "CAUSES", "p1"),
     PredicationRow("C1", <<"a">>, "dsyn", "C3", <<"c">>, "dsyn", "CAUSES", "p1"),
     PredicationRow("C3", <<"c", "c">>, "dsyn", "C3", <<"c", "c">>, "dsyn", "CAUSES", "p1")}

\* rows for the naming: C1 under two surface names, C3 under a name that
\* cleaning changes, C4 under the surface name of C1, objects C2 and C3; the
\* row of C1 under its second name gives C2 a second name too
NamingRows ==
    ({PredicationRow(s[1], s[2], "dsyn", o[1], o[2], "dsyn", "CAUSES", "p1") :
        s \in {<<"C1", <<"a">>>>, <<"C1", <<"A">>>>, <<"C3", <<"c", "-">>>>, <<"C4", <<"a">>>>},
        o \in {<<"C2", <<"b">>>>, <<"C3", <<"c", "-">>>>}}
     \ {PredicationRow("C1", <<"A">>, "dsyn", "C2", <<"b">>, "dsyn", "CAUSES", "p1")})
    \cup {PredicationRow("C1", <<"A">>, "dsyn", "C2", <<"e">>, "dsyn", "CAUSES", "p1")}

\* the (cui, name) pairs a sentence table may hold in the naming stores
NamingSentenceNames ==
    {<<"C1", <<"a">>>>, <<"C1", <<"A">>>>, <<"C2", <<"b">>>>, <<"C2", <<"e">>>>, <<"C3", <<"c">>>>}

\* every naming sentence table names the exposure C1, under one name or two;
\* the outcome C2 has at most one name
NamingSentenceTables ==
    {pairs \in SUBSET NamingSentenceNames :
        /\ <<"C1", <<"a">>>> \in pairs
        /\ ~({<<"C2", <<"b">>>>, <<"C2", <<"e">>>>} \subseteq pairs)}

SentenceTableOf(pairs) == {SentenceRow("p1", "s1", <<"t">>, p[1], p[2]) : p \in pairs}

\* the sentence table of the traversal stores: every CUI under its plain
\* name in the first sentence of p1, a second sentence of p1, none of p2
PlainSentenceTable ==
    SentenceTableOf({<<c, PlainName(c)>> : c \in CUIs})
    \cup {SentenceRow("p1", "s2", <<"u">>, "C1", <<"a">>)}

\* the sentence texts of the stores
SentenceTexts == {<<"t">>, <<"u">>}

StoresOf(rows) == {s \in SUBSET rows : Cardinality(s) <= MaxRows}

(***************************************************************************)
(* Configuration.                                                          *)
(***************************************************************************)
\* min_pmids default of load_yaml_config
DefaultMinPmids == 50
\* degree default of load_yaml_config
DefaultDegree == 3

\* dict.get(key, default); a dictionary is a function, the empty dictionary
\* and None are both the empty function
Get(d, key, default) == IF key \in DOMAIN d THEN d[key] ELSE default

\* the predication types load_yaml_config accepts
VALID_PREDICATION_TYPES ==
    {"CAUSES", "TREATS", "PREVENTS", "INTERACTS_WITH", "AFFECTS", "ASSOCIATED_WITH",
     "PREDISPOSES", "COMPLICATES", "AUGMENTS", "DISRUPTS", "INHIBITS", "STIMULATES",
     "PRODUCES", "MANIFESTATION_OF", "RESULT_OF", "PROCESS_OF", "PART_OF", "ISA",
     "LOCATION_OF", "ADMINISTERED_TO", "METHOD_OF", "USES", "DIAGNOSES"}

\* validate_predication_types: the list is not empty and names valid types only

validate_predication_types(types) == types # <<>> /\ \A i \in DOMAIN types : types[i] \in VALID_PREDICATION_TYPES

RECURSIVE SelectValid(_)
\* load_yaml_config: "Filter out invalid types and keep only valid ones"
SelectValid(types) == IF types = <<>> THEN <<>>
                      ELSE IF Head(types) \in VALID_PREDICATION_TYPES
                           THEN <<Head(types)>> \o SelectValid(Tail(types))
                           ELSE SelectValid(Tail(types))

\* load_yaml_config: the dictionary it returns for the parsed YAML file
load_yaml_config(yaml_config) ==
    LET blacklist_cuis == Get(yaml_config, "blacklist_cuis", <<>>)
        predication_type == IF Get(yaml_config, "predication_type", <<>>) = <<>> THEN <<"CAUSES">>
                            ELSE yaml_config.predication_type
        filtered == SelectValid(predication_type)
        predication_types == IF validate_predication_types(predication_type) THEN predication_type
                             ELSE IF filtered = <<>> THEN <<"CAUSES">> ELSE filtered
    IN  [exposure_cuis |-> yaml_config.exposure_cuis,
         outcome_cuis |-> yaml_config.outcome_cuis,
         blacklist_cuis |-> blacklist_cuis,
         threshold |-> Get(yaml_config, "min_pmids", DefaultMinPmids),
         degree |-> Get(yaml_config, "degree", Get(yaml_config, "k_hops", DefaultDegree)),
         predication_type |-> predication_type,
         predication_types |-> predication_types,
         full_config |-> yaml_config]

RECURSIVE JoinCuis(_)
\* '_'.join(cuis)
JoinCuis(cuis) == IF cuis = <<>> THEN <<>>
                  ELSE IF Len(cuis) = 1 THEN CuiChars(cuis[1])
                  ELSE CuiChars(Head(cuis)) \o <<"_">> \o JoinCuis(Tail(cuis))

\* create_dynamic_config_from_yaml: the ExposureOutcomePair
create_dynamic_config_from_yaml(yaml_data) ==
    [exposure_cui_list |-> yaml_data.exposure_cuis,
     exposure_name |-> IF Get(yaml_data.full_config, "exposure_name", <<>>) # <<>>
                       THEN yaml_data.full_config.exposure_name
                       ELSE Str_Exposure_ \o JoinCuis(yaml_data.exposure_cuis),
     outcome_cui_list |-> yaml_data.outcome_cuis,
     outcome_name |-> IF Get(yaml_data.full_config, "outcome_name", <<>>) # <<>>
                      THEN yaml_data.full_config.outcome_name
                      ELSE Str_Outcome_ \o JoinCuis(yaml_data.outcome_cuis)]

\* DatabaseOperations.__init__: the fields of the object
DatabaseOperationsInit(config, threshold, predication_types, degree, blocklist_cuis, thresholds_by_degree) ==
    [config |-> config,
     threshold |-> threshold,
     predication_types |-> IF Len(predication_types) = 0 THEN <<"CAUSES">> ELSE predication_types,
     degree |-> degree,
     blocklist_cuis |-> IF Len(blocklist_cuis) = 0 THEN <<>> ELSE blocklist_cuis,
     thresholds_by_degree |-> IF DOMAIN thresholds_by_degree # {}
                              THEN thresholds_by_degree
                              ELSE [i \in 1..degree |-> threshold]]

\* GraphAnalyzer.__init__: the DatabaseOperations it builds from the
\* yaml_config_data it is given
GraphAnalyzerInit(config, threshold, yaml_config_data, degree) ==
    LET predication_types == Get(yaml_config_data, "predication_types", <<"CAUSES">>)
        blocklist_cuis == Get(yaml_config_data, "blocklist_cuis", <<>>)
    IN  DatabaseOperationsInit(config, threshold, predication_types, degree, blocklist_cuis, <<>>)

(***************************************************************************)
(* SQL: placeholders, positional parameters, and the queries.              *)
(* A query text is the list of its %s placeholders in order of appearance; *)
(* psycopg2 binds the k-th parameter to the k-th placeholder.              *)
(***************************************************************************)
TextParam(v) == [kind |-> "text", val |-> v]
ArrayParam(set) == [kind |-> "array", val |-> set]
IntParam(n) == [kind |-> "int", val |-> n]

TextParams(list) == [i \in 1..Len(list) |-> TextParam(list[i])]

\* the type of value PostgreSQL accepts at a placeholder
SlotKind(slot) == CASE slot \in {"predicate", "subject_cui IN", "object_cui IN"} -> "text"
                    [] slot = "HAVING >=" -> "int"
                    [] OTHER -> "array"

SlotsNamed(slots, name) == {i \in DOMAIN slots : slots[i] = name}

\* cursor.execute raises when the parameters do not fit the placeholders
BindingFails(slots, params) ==
    \/ Len(slots) # Len(params)
    \/ \E i \in DOMAIN slots : SlotKind(slots[i]) # params[i].kind

\* DatabaseOperations._create_blocklist_conditions
_create_blocklist_conditions(self) ==
    IF self.blocklist_cuis = <<>>
    THEN [condition |-> <<>>, params |-> <<>>]
    ELSE [condition |-> <<"subject_cui != ALL", "object_cui != ALL">>,
          params |-> <<ArrayParam(Range(self.blocklist_cuis)), ArrayParam(Range(self.blocklist_cuis))>>]

\* DatabaseOperations._create_predication_condition
_create_predication_condition(self) == [i \in 1..Len(self.predication_types) |-> "predicate"]

\* DatabaseOperations._create_cui_conditions
_create_cui_conditions(cui_list, slot) == [i \in 1..Len(cui_list) |-> slot]

\* the WHERE clause of the hop queries on one row, with the bound values
HopWhere(r, slots, params) ==
    /\ r.predicate \in {params[i].val : i \in SlotsNamed(slots, "predicate")}
    /\ \/ \E i \in SlotsNamed(slots, "subject_cui = ANY") : r.subject_cui \in params[i].val
       \/ \E i \in SlotsNamed(slots, "object_cui = ANY") : r.object_cui \in params[i].val
    /\ \A i \in SlotsNamed(slots, "subject_cui != ALL") : r.subject_cui \notin params[i].val
    /\ \A i \in SlotsNamed(slots, "object_cui != ALL") : r.object_cui \notin params[i].val

\* the hop query without its HAVING clause
Having_Missing(group, slots, params) == TRUE

\* HAVING COUNT(DISTINCT cp.pmid) >= %s
Having(group, slots, params) ==
    \A i \in SlotsNamed(slots, "HAVING >=") : Cardinality({r.pmid : r \in group}) >= params[i].val

\* GROUP BY subject_name, object_name, subject_cui, object_cui, predicate
HopGroupKey(r) == <<r.subject_name, r.object_name, r.subject_cui, r.object_cui, r.predicate>>

\* the SELECT list of the hop queries for one group
HopResultRow(group) ==
    LET r == CHOOSE r \in group : TRUE
    IN  [subject_name |-> r.subject_name, object_name |-> r.object_name,
         evidence |-> Cardinality({x.pmid : x \in group}),
         subject_cui |-> r.subject_cui, object_cui |-> r.object_cui,
         predicate |-> r.predicate,
         pmid_list |-> {x.pmid : x \in group},
         pmid_sentence_id_list |-> {<<x.pmid, x.sentence_id>> : x \in group}]

\* the early return of a hop whose frontier is empty: no query is executed
NoQuery == [executed |-> FALSE, query |-> <<>>, params |-> <<>>, error |-> FALSE, rows |-> {}]

\* execute_query_with_logging on a hop query: the rows it yields, or an error
ExecuteHopQuery(slots, params, table) ==
    IF BindingFails(slots, params)
    THEN [executed |-> TRUE, query |-> slots, params |-> params, error |-> TRUE, rows |-> {}]
    ELSE LET matching == {r \in table : HopWhere(r, slots, params)}
             groups == {{x \in matching : HopGroupKey(x) = HopGroupKey(r)} : r \in matching}
         IN  [executed |-> TRUE, query |-> slots, params |-> params, error |-> FALSE,
              rows |-> {HopResultRow(g) : g \in {h \in groups : Having(h, slots, params)}}]

\* ORDER BY cp.subject_name ASC: the orders fetchall may return the rows in
OrderedResults(rows) ==
    {f \in Listings(rows) : \A i, j \in DOMAIN f : i < j => StrLeq(f[i].subject_name, f[j].subject_name)}

\* DatabaseOperations._fetch_first_hop: the query and its parameters
_fetch_first_hop(self, table) ==
    LET blocklist == _create_blocklist_conditions(self)
        predication_condition == _create_predication_condition(self)
        degree_threshold == Get(self.thresholds_by_degree, 1, self.threshold)
        query == predication_condition
                 \o <<"subject_cui = ANY", "object_cui = ANY", "subject_cui = ANY", "object_cui = ANY">>
                 \o blocklist.condition \o <<"HAVING >=">>
        params == TextParams(self.predication_types)
                  \o <<ArrayParam(Range(self.config.exposure_cui_list)), ArrayParam(Range(self.config.exposure_cui_list)),
                       ArrayParam(Range(self.config.outcome_cui_list)), ArrayParam(Range(self.config.outcome_cui_list))>>
                  \o <<IntParam(degree_threshold)>> \o blocklist.params
    IN  ExecuteHopQuery(query, params, table)

\* DatabaseOperations._fetch_second_hop
_fetch_second_hop(self, previous_hop_cuis, table) ==
    IF previous_hop_cuis = {} THEN NoQuery
    ELSE LET predication_condition == _create_predication_condition(self)
             blocklist == _create_blocklist_conditions(self)
             degree_threshold == Get(self.thresholds_by_degree, 2, self.threshold)
             query == predication_condition \o <<"subject_cui = ANY", "object_cui = ANY">>
                      \o blocklist.condition \o <<"HAVING >=">>
             params == TextParams(self.predication_types)
                       \o <<ArrayParam(previous_hop_cuis), ArrayParam(previous_hop_cuis)>>
                       \o blocklist.params \o <<IntParam(degree_threshold)>>
         IN  ExecuteHopQuery(query, params, table)

\* DatabaseOperations._fetch_higher_hop
_fetch_higher_hop(self, hop_level, previous_hop_cuis, table) ==
    IF previous_hop_cuis = {} THEN NoQuery
    ELSE LET predication_condition == _create_predication_condition(self)
             blocklist == _create_blocklist_conditions(self)
             degree_threshold == Get(self.thresholds_by_degree, hop_level, self.threshold)
             query == predication_condition \o <<"subject_cui = ANY", "object_cui = ANY">>
                      \o blocklist.condition \o <<"HAVING >=">>
             params == TextParams(self.predication_types)
                       \o <<ArrayParam(previous_hop_cuis), ArrayParam(previous_hop_cuis)>>
                       \o blocklist.params \o <<IntParam(degree_threshold)>>
         IN  ExecuteHopQuery(query, params, table)

\* DatabaseOperations.fetch_n_hop_relationships
fetch_n_hop_relationships(self, hop_level, previous_hop_cuis, table) ==
    IF hop_level = 1 THEN _fetch_first_hop(self, table)
    ELSE IF hop_level = 2 THEN _fetch_second_hop(self, previous_hop_cuis, table)
    ELSE _fetch_higher_hop(self, hop_level, previous_hop_cuis, table)

\* DatabaseOperations._get_hop_name
_get_hop_name(hop_level) == CASE hop_level = 1 -> "first" [] hop_level = 2 -> "second"
                              [] hop_level = 3 -> "third" [] hop_level = 4 -> "fourth"
                              [] hop_level = 5 -> "fifth" [] OTHER -> "hop_n"

\* DatabaseOperations.fetch_causal_sentences_by_sentence_id: pmid -> the
\* unique sentences (list(set(...)), in no particular order)
fetch_causal_sentences_by_sentence_id(pmid_sentence_pairs, sentences, raises) ==
    IF raises THEN <<>> ELSE
    LET pmid_list == {p[1] : p \in pmid_sentence_pairs}
        sentence_id_list == {p[2] : p \in pmid_sentence_pairs}
        results == {r \in sentences : r.pmid \in pmid_list /\ r.sentence_id \in sentence_id_list}
    IN  [pmid \in {r.pmid : r \in results} |-> {r.sentence : r \in {x \in results : x.pmid = pmid}}]

\* DatabaseOperations._process_hop_results
_process_hop_results(results, hop_level, sentences, raises) ==
    LET all_pmid_sentence_pairs == UNION {results[i].pmid_sentence_id_list : i \in DOMAIN results}
        pmid_sentences == IF all_pmid_sentence_pairs = {} THEN <<>>
                          ELSE fetch_causal_sentences_by_sentence_id(all_pmid_sentence_pairs, sentences, raises)
    IN  [i \in DOMAIN results |->
            [subject_name |-> results[i].subject_name,
             subject_cui |-> results[i].subject_cui,
             predicate |-> results[i].predicate,
             object_name |-> results[i].object_name,
             object_cui |-> results[i].object_cui,
             evidence_count |-> results[i].evidence,
             relationship_degree |-> _get_hop_name(hop_level),
             pmid_data |-> [pmid \in results[i].pmid_list |->
                               IF pmid \in DOMAIN pmid_sentences THEN pmid_sentences[pmid] ELSE {}]]]

(***************************************************************************)
(* Names, links and consolidation.                                         *)
(***************************************************************************)
\* the names counted for one CUI, in the order build_cui_to_name_mapping
\* meets them (subject before object within an assertion)
NameOccurrences(cui, detailed_assertions) ==
    Flatten([i \in DOMAIN detailed_assertions |->
        (IF detailed_assertions[i].subject_cui = cui /\ detailed_assertions[i].subject_name # <<>>
         THEN <<detailed_assertions[i].subject_name>> ELSE <<>>)
        \o (IF detailed_assertions[i].object_cui = cui /\ detailed_assertions[i].object_name # <<>>
            THEN <<detailed_assertions[i].object_name>> ELSE <<>>)])

CountIn(seq, x) == Cardinality({i \in DOMAIN seq : seq[i] = x})

FirstIndex(seq, x) == CHOOSE i \in DOMAIN seq : seq[i] = x /\ \A j \in 1..(i - 1) : seq[j] # x

\* an election that breaks ties by the byte order of the cleaned names
MostFrequentName_Lexicographic(occurrences) ==
    CHOOSE n \in Range(occurrences) :
        \A m \in Range(occurrences) :
            \/ CountIn(occurrences, n) > CountIn(occurrences, m)
            \/ /\ CountIn(occurrences, n) = CountIn(occurrences, m)
               /\ StrLeq(clean_output_name(n), clean_output_name(m))

\* max(name_counts.items(), key=lambda x: x[1])[0]: the first name, in
\* insertion order, among those of highest count
MostFrequentName(occurrences) ==
    CHOOSE n \in Range(occurrences) :
        \A m \in Range(occurrences) :
            \/ CountIn(occurrences, n) > CountIn(occurrences, m)
            \/ /\ CountIn(occurrences, n) = CountIn(occurrences, m)
               /\ FirstIndex(occurrences, n) <= FirstIndex(occurrences, m)

\* DatabaseOperations.build_cui_to_name_mapping
build_cui_to_name_mapping(detailed_assertions) ==
    [cui \in {c \in CUIs : NameOccurrences(c, detailed_assertions) # <<>>} |->
        MostFrequentName(NameOccurrences(cui, detailed_assertions))]

\* links that carry each assertion's own surface names
CuiBasedLinks_SurfaceNames(detailed_assertions) ==
    [i \in DOMAIN detailed_assertions |->
        <<detailed_assertions[i].subject_name, detailed_assertions[i].object_name>>]

\* the cui_based_links of fetch_k_hop_relationships
CuiBasedLinks(detailed_assertions) ==
    LET cui_to_name_mapping == build_cui_to_name_mapping(detailed_assertions)
    IN  Flatten([i \in DOMAIN detailed_assertions |->
            IF /\ detailed_assertions[i].subject_cui \in DOMAIN cui_to_name_mapping
               /\ detailed_assertions[i].object_cui \in DOMAIN cui_to_name_mapping
            THEN << <<cui_to_name_mapping[detailed_assertions[i].subject_cui],
                      cui_to_name_mapping[detailed_assertions[i].object_cui]>> >>
            ELSE <<>>])

\* DatabaseOperations.fetch_cui_name_mappings: the dictionaries the
\* comprehension over the unordered DISTINCT (cui, name) rows can produce
fetch_cui_name_mappings(cui_list, sentences, raises) ==
    IF raises \/ cui_list = <<>> THEN {<<>>} ELSE
    LET results == {<<r.cui, r.name>> : r \in {x \in sentences : x.cui \in Range(cui_list)}}
    IN  {m \in [{r[1] : r \in results} -> {r[2] : r \in results}] :
            \A c \in DOMAIN m : <<c, m[c]>> \in results}

\* DatabaseOperations.create_consolidated_node_mapping, given the dictionary
\* fetch_cui_name_mappings returned
create_consolidated_node_mapping(self, cui_name_mapping) ==
    LET consolidated_exposure_name == clean_output_name(self.config.exposure_name)
        consolidated_outcome_name == clean_output_name(self.config.outcome_name)
        exposure_items == [i \in DOMAIN self.config.exposure_cui_list |->
            LET cui == self.config.exposure_cui_list[i]
            IN  <<IF cui \in DOMAIN cui_name_mapping
                  THEN clean_output_name(cui_name_mapping[cui])
                  ELSE clean_output_name(Str_Exposure_ \o CuiChars(cui)),
                  consolidated_exposure_name>>]
        outcome_items == [i \in DOMAIN self.config.outcome_cui_list |->
            LET cui == self.config.outcome_cui_list[i]
            IN  <<IF cui \in DOMAIN cui_name_mapping
                  THEN clean_output_name(cui_name_mapping[cui])
                  ELSE clean_output_name(Str_Outcome_ \o CuiChars(cui)),
                  consolidated_outcome_name>>]
        items == exposure_items \o outcome_items
        last(key) == CHOOSE i \in DOMAIN items : items[i][1] = key /\ \A j \in DOMAIN items : items[j][1] = key => j <= i
    IN  [key \in {items[i][1] : i \in DOMAIN items} |-> items[last(key)][2]]

\* DatabaseOperations.apply_consolidated_mapping
apply_consolidated_mapping(node_name, consolidated_mapping) ==
    IF node_name \in DOMAIN consolidated_mapping THEN consolidated_mapping[node_name] ELSE node_name

\* the consolidated edge of one link: clean both ends, then map them
ConsolidatedEdge(link, consolidated_mapping) ==
    <<apply_consolidated_mapping(clean_output_name(link[1]), consolidated_mapping),
      apply_consolidated_mapping(clean_output_name(link[2]), consolidated_mapping)>>

\* the edge loop without its guard against equal ends
ConsolidatedEdges_NoGuard(links, consolidated_mapping) ==
    {ConsolidatedEdge(links[i], consolidated_mapping) : i \in DOMAIN links}

\* the edge loop of run_analysis
ConsolidatedEdges(links, consolidated_mapping) ==
    {e \in {ConsolidatedEdge(links[i], consolidated_mapping) : i \in DOMAIN links} : e[1] # e[2]}

\* the node and edge loops of generate_basic_dagitty_script
CleanedNodes(nodes, consolidated_mapping) ==
    {apply_consolidated_mapping(clean_output_name(n), consolidated_mapping) : n \in nodes}

\* the edge loop without the second cleaning and consolidation pass
CleanedEdges_AsGiven(edges, consolidated_mapping) ==
    {e \in edges : e[1] # e[2]}

CleanedEdges(edges, consolidated_mapping) ==
    {e \in {ConsolidatedEdge(x, consolidated_mapping) : x \in edges} : e[1] # e[2]}

(***************************************************************************)
(* The evidence dossier.                                                   *)
(***************************************************************************)
\* pmid_list.split(','): the pmids of a result row in the order of
\* STRING_AGG(... ORDER BY cp.pmid::text), which is the key order of pmid_data
PmidList(pmids) == SelectSeq(PmidsInOrder, LAMBDA p : p \in pmids)

\* list(set(...)): the sentences of a set in the iteration order of the run
ListOfSet(sentences, order) == SelectSeq(order, LAMBDA x : x \in sentences)

\* a merge that appends every sentence of a repeated pmid
MergeSentences_AppendAll(pmid_sentences, pmid, sentences, order) ==
    IF sentences = {} THEN pmid_sentences
    ELSE IF pmid \notin DOMAIN pmid_sentences
         THEN (pmid :> ListOfSet(sentences, order)) @@ pmid_sentences
         ELSE [pmid_sentences EXCEPT ![pmid] = @ \o ListOfSet(sentences, order)]

\* create_optimized_structure, first pass, one pmid of one assertion: the
\* sentences are stored under a new pmid and merged under a known one
MergeSentences(pmid_sentences, pmid, sentences, order) ==
    IF sentences = {} THEN pmid_sentences
    ELSE IF pmid \notin DOMAIN pmid_sentences
         THEN (pmid :> ListOfSet(sentences, order)) @@ pmid_sentences
         ELSE [pmid_sentences EXCEPT ![pmid] = @ \o ListOfSet(sentences \ Range(@), order)]

RECURSIVE CollectPmidData(_, _, _, _)
\* create_optimized_structure, first pass, the pmids of one assertion
CollectPmidData(pmid_sentences, pmid_data, pmids, order) ==
    IF pmids = <<>> THEN pmid_sentences
    ELSE CollectPmidData(MergeSentences(pmid_sentences, Head(pmids), pmid_data[Head(pmids)], order),
                         pmid_data, Tail(pmids), order)

RECURSIVE CollectPmidSentences(_, _, _)
\* create_optimized_structure, first pass over the assertions
CollectPmidSentences(pmid_sentences, data, order) ==
    IF data = <<>> THEN pmid_sentences
    ELSE CollectPmidSentences(
            CollectPmidData(pmid_sentences, Head(data).pmid_data, PmidList(DOMAIN Head(data).pmid_data), order),
            Tail(data), order)

\* references to every pmid of the assertion
PmidRefs_AllPmids(pmid_data) == PmidList(DOMAIN pmid_data)

\* create_optimized_structure, second pass: the pmids of the assertion that
\* have sentences
PmidRefs(pmid_data) == SelectSeq(PmidList(DOMAIN pmid_data), LAMBDA pmid : pmid_data[pmid] # {})

\* GraphAnalyzer.create_optimized_structure
create_optimized_structure(data, order) ==
    [pmid_sentences |-> CollectPmidSentences(<<>>, data, order),
     assertions |-> [i \in DOMAIN data |->
        [subj |-> data[i].subject_name, subj_cui |-> data[i].subject_cui,
         predicate |-> data[i].predicate,
         obj |-> data[i].object_name, obj_cui |-> data[i].object_cui,
         ev_count |-> data[i].evidence_count,
         pmid_refs |-> PmidRefs(data[i].pmid_data)]]]

(***************************************************************************)
(* The Markov blanket statements.                                          *)
(***************************************************************************)
\* MarkovBlanketComputer.__init__: the placeholder exclusions
excluded_values == {"C0030705"}

\* the semantic types the Markov blanket statements leave out
MarkovBlanketSemtypes == {"acty", "bhvr", "evnt", "gora", "mcha", "ocac"}

\* the IN subquery of children_parents: the children CUIs of the target,
\* grouped by object CUI, for the exposure statement without the outcome CUIs
ChildrenCuis(predication_types, threshold, target_cui, not_in, table) ==
    LET rows == {cp2 \in table : /\ cp2.predicate \in Range(predication_types)
                                  /\ cp2.subject_cui = target_cui
                                  /\ cp2.object_semtype \notin MarkovBlanketSemtypes
                                  /\ cp2.object_cui \notin not_in}
    IN  {cui \in {r.object_cui : r \in rows} :
            Cardinality({r.pmid : r \in {x \in rows : x.object_cui = cui}}) >= threshold}

\* the children_parents part of _compute_outcome_markov_blanket (not_in
\* empty) and of _compute_exposure_markov_blanket (not_in the outcome CUIs):
\* the subject names of the parents of the target's children
children_parents(predication_types, threshold, target_cui, not_in, table) ==
    LET children == ChildrenCuis(predication_types, threshold, target_cui, not_in, table)
        rows == {cp \in table : /\ cp.predicate \in Range(predication_types)
                                /\ cp.object_cui \in children
                                /\ cp.subject_semtype \notin MarkovBlanketSemtypes
                                /\ cp.subject_cui \notin excluded_values
                                /\ cp.object_cui \notin excluded_values}
    IN  {node \in {r.subject_name : r \in rows} :
            Cardinality({r.pmid : r \in {x \in rows : x.subject_name = node}}) >= threshold}

\* the outcome_parents and exposure_parents part: the subject names of the
\* rows into the target
markov_blanket_parents(predication_types, threshold, target_cui, table) ==
    LET rows == {cp \in table : /\ cp.predicate \in Range(predication_types)
                                /\ cp.object_cui = target_cui
                                /\ cp.subject_semtype \notin MarkovBlanketSemtypes
                                /\ cp.subject_cui \notin excluded_values
                                /\ cp.object_cui \notin excluded_values}
    IN  {node \in {r.subject_name : r \in rows} :
            Cardinality({r.pmid : r \in {x \in rows : x.subject_name = node}}) >= threshold}

\* the outcome_children and exposure_children part: the object names of the
\* rows out of the target
markov_blanket_children(predication_types, threshold, target_cui, table) ==
    LET rows == {cp \in table : /\ cp.predicate \in Range(predication_types)
                                /\ cp.subject_cui = target_cui
                                /\ cp.object_semtype \notin MarkovBlanketSemtypes
                                /\ cp.subject_cui \notin excluded_values
                                /\ cp.object_cui \notin excluded_values}
    IN  {node \in {r.object_name : r \in rows} :
            Cardinality({r.pmid : r \in {x \in rows : x.object_name = node}}) >= threshold}

\* MarkovBlanketComputer._compute_outcome_markov_blanket: the statement is
\* the WITH clause of the three parts with no SELECT after it, which the
\* server rejects; cursor.execute raises
_compute_outcome_markov_blanket(self, outcome_cui, table) ==
    [error |-> TRUE, nodes |-> {}]

\* MarkovBlanketComputer._compute_exposure_markov_blanket: the parameters
\* add tuple(outcome_cuis) to a list, which raises before the statement is
\* sent
_compute_exposure_markov_blanket(self, exposure_cui, outcome_cuis, table) ==
    [error |-> TRUE, nodes |-> {}]

\* MarkovBlanketComputer.compute_markov_blankets: the outcome CUIs, then the
\* exposure CUIs, then the two cleaned labels
compute_markov_blankets(self, table) ==
    LET outcome_results == [i \in DOMAIN self.config.outcome_cui_list |->
            _compute_outcome_markov_blanket(self, self.config.outcome_cui_list[i], table)]
        exposure_results == [i \in DOMAIN self.config.exposure_cui_list |->
            _compute_exposure_markov_blanket(self, self.config.exposure_cui_list[i],
                                             self.config.outcome_cui_list, table)]
        error == \/ \E i \in DOMAIN outcome_results : outcome_results[i].error
                 \/ \E i \in DOMAIN exposure_results : exposure_results[i].error
    IN  [error |-> error,
         nodes |-> IF error THEN {}
                   ELSE UNION {outcome_results[i].nodes : i \in DOMAIN outcome_results}
                        \cup UNION {exposure_results[i].nodes : i \in DOMAIN exposure_results}
                        \cup {clean_output_name(self.config.exposure_name),
                              clean_output_name(self.config.outcome_name)}]

\* MarkovBlanketAnalyzer.__init__: the MarkovBlanketComputer of an analyzer
mb_computer(an) ==
    [config |-> an.config, threshold |-> an.threshold, predication_types |-> an.db_ops.predication_types]

(***************************************************************************)
(* The pre-flight probe.                                                   *)
(***************************************************************************)
\* the probe with the CUI condition of the first hop: either end among the
\* exposure or outcome CUIs
ProbeWhere_AsFirstHop(r, slots, params) ==
    LET cuis == {params[i].val : i \in SlotsNamed(slots, "subject_cui IN") \cup SlotsNamed(slots, "object_cui IN")}
    IN  /\ r.predicate \in {params[i].val : i \in SlotsNamed(slots, "predicate")}
        /\ (r.subject_cui \in cuis \/ r.object_cui \in cuis)

\* the WHERE clause of the probe on one row, with the bound values
ProbeWhere(r, slots, params) ==
    /\ r.predicate \in {params[i].val : i \in SlotsNamed(slots, "predicate")}
    /\ r.subject_cui \in {params[i].val : i \in SlotsNamed(slots, "subject_cui IN")}
    /\ r.object_cui \in {params[i].val : i \in SlotsNamed(slots, "object_cui IN")}

\* GROUP BY cp.subject_cui, cp.object_cui, cp.predicate
ProbeGroupKey(r) == <<r.subject_cui, r.object_cui, r.predicate>>

\* GraphAnalyzer.check_evidence_exists
check_evidence_exists(self, table) ==
    LET predication_types == self.db_ops.predication_types
        query == _create_predication_condition(self.db_ops)
                 \o _create_cui_conditions(self.config.exposure_cui_list, "subject_cui IN")
                 \o _create_cui_conditions(self.config.outcome_cui_list, "object_cui IN")
                 \o <<"HAVING >=">>
        params == TextParams(predication_types) \o TextParams(self.config.exposure_cui_list)
                  \o TextParams(self.config.outcome_cui_list) \o <<IntParam(self.threshold)>>
        matching == {r \in table : ProbeWhere(r, query, params)}
        groups == {{x \in matching : ProbeGroupKey(x) = ProbeGroupKey(r)} : r \in matching}
    IN  /\ ~BindingFails(query, params)
        /\ \E g \in groups : Having(g, query, params)

(***************************************************************************)
(* The inputs of a run.                                                    *)
(***************************************************************************)
\* a threshold other than t, for the per-degree dictionaries
OtherThreshold(t) == 1 + (t % MaxThreshold)

UserInput(entry, mode, exposure_cuis, exposure_name, blocklist_cuis, blocklist_key, min_pmids, degree, thresholds_by_degree) ==
    [entry |-> entry, mode |-> mode,
     exposure_cuis |-> exposure_cuis, outcome_cuis |-> <<"C2">>,
     exposure_name |-> exposure_name, outcome_name |-> <<"o">>,
     blocklist_cuis |-> blocklist_cuis, blocklist_key |-> blocklist_key,
     min_pmids |-> min_pmids, degree |-> degree,
     thresholds_by_degree |-> thresholds_by_degree,
     predication_type |-> <<"CAUSES">>,
     fault |-> "none", fault_hop |-> 0]

\* runs over the traversal stores: from a YAML file through the command
\* line, from a GraphAnalyzer built with a yaml_config_data dictionary, and
\* from a DatabaseOperations built directly
TraversalInputs ==
    {UserInput("yaml", "general", <<"C1">>, <<"e">>, <<"C3">>, key, 1, d, <<>>) :
        key \in {"blocklist_cuis", "blacklist_cuis"}, d \in 1..MaxDegree}
    \cup {UserInput("yaml", mode, <<"C1">>, <<"e">>, <<>>, "blocklist_cuis", t, d, <<>>) :
        mode \in {"general", "markov_blanket"}, t \in 1..MaxThreshold, d \in 1..MaxDegree}
    \cup {UserInput("yaml", "general", <<"C1">>, <<"e">>, <<>>, "blocklist_cuis", 1, d, 2 :> OtherThreshold(1)) :
        d \in 1..MaxDegree}
    \cup {UserInput("analyzer", "general", <<"C1">>, <<"e">>, <<"C3">>, "blocklist_cuis", t, d, <<>>) :
        t \in 1..MaxThreshold, d \in 1..MaxDegree}
    \cup {UserInput("db_ops", "library", <<"C1">>, <<"e">>, blocklist, "blocklist_cuis", t, d, <<>>) :
        blocklist \in {<<>>, <<"C3">>}, t \in 1..MaxThreshold, d \in 1..MaxDegree}
    \cup {UserInput("db_ops", "library", <<"C1">>, <<"e">>, <<>>, "blocklist_cuis", t, d, 2 :> OtherThreshold(t)) :
        t \in 1..MaxThreshold, d \in 1..MaxDegree}

\* runs configured with an empty list of predication types, one for each
\* way of starting a run
EmptyPredicateInputs ==
    {[UserInput(entry, mode, <<"C1">>, <<"e">>, <<>>, "blocklist_cuis", 1, 1, <<>>) EXCEPT !.predication_type = <<>>] :
        entry \in {"yaml", "analyzer"}, mode \in {"general"}}
    \cup {[UserInput("db_ops", "library", <<"C1">>, <<"e">>, <<>>, "blocklist_cuis", 1, 1, <<>>)
              EXCEPT !.predication_type = <<>>]}

\* runs during which the database raises an error: on the canonical-name
\* statement, on the sentence statement, or on the statement of one hop
FaultInputs ==
    {[UserInput("yaml", "general", <<"C1">>, <<"e">>, <<>>, "blocklist_cuis", 1, 1, <<>>) EXCEPT !.fault = "names"],
     [UserInput("yaml", "general", <<"C1">>, <<"e">>, <<>>, "blocklist_cuis", 1, 1, <<>>) EXCEPT !.fault = "sentences"],
     [UserInput("yaml", "general", <<"C1">>, <<"e">>, <<>>, "blocklist_cuis", 1, 2, <<>>) EXCEPT !.fault = "sentences"],
     [UserInput("yaml", "general", <<"C1">>, <<"e">>, <<>>, "blocklist_cuis", 1, MaxDegree, <<>>)
         EXCEPT !.fault = "hop", !.fault_hop = 2]}

\* runs of two or more hops over the renaming stores
RenamingInputs ==
    {UserInput("yaml", "general", <<"C1">>, <<"e">>, <<>>, "blocklist_cuis", 1, d, <<>>) : d \in 2..MaxDegree}

\* runs over the naming stores: a YAML file with one or two exposure CUIs
\* and an exposure label that cleaning changes
NamingInputs ==
    {UserInput("yaml", "general", exposure_cuis, <<"e", ".">>, <<>>, "blocklist_cuis", 1, 1, <<>>) :
        exposure_cuis \in {<<"C1">>, <<"C1", "C3">>}}

\* the parsed YAML file of a run
YamlFile(input) ==
    [exposure_cuis |-> input.exposure_cuis, outcome_cuis |-> input.outcome_cuis,
     exposure_name |-> input.exposure_name, outcome_name |-> input.outcome_name,
     min_pmids |-> input.min_pmids, degree |-> input.degree,
     predication_type |-> input.predication_type]
    @@ (IF input.blocklist_cuis = <<>> THEN <<>> ELSE (input.blocklist_key :> input.blocklist_cuis))
    @@ (IF DOMAIN input.thresholds_by_degree = {} THEN <<>>
        ELSE ("thresholds_by_degree" :> input.thresholds_by_degree))

\* the ExposureOutcomePair of a run that does not come from a YAML file
ConfigOf(input) ==
    [exposure_cui_list |-> input.exposure_cuis, exposure_name |-> input.exposure_name,
     outcome_cui_list |-> input.outcome_cuis, outcome_name |-> input.outcome_name]

(***************************************************************************)
(* State.                                                                  *)
(***************************************************************************)
VARIABLES
    predication,              \* the predication table
    sentence,                 \* the sentence table
    user_input,               \* what the run was started with
    pc,                       \* where the run is
    yaml_data,                \* what load_yaml_config returned
    analyzer,                 \* the GraphAnalyzer (config, threshold, degree, db_ops)
    hop_level,                \* the loop variable of fetch_k_hop_relationships
    previous_cuis,            \* the frontier handed to each hop so far
    statements,               \* the hop statements so far
    current_hop_cuis,
    all_detailed_assertions,
    cui_based_links,
    consolidated_mapping,     \* the mapping run_analysis built
    all_nodes,
    all_edges,
    files,                    \* the files written, by name
    raw_label,                \* a label handed to clean_output_name
    cleaned_labels,           \* what clean_output_name returned for it, and for what it returned
    transaction,              \* the transaction of the connection of the run: "open" or "aborted"
    result                    \* what the run returned

vars == <<raw_label, cleaned_labels, predication, sentence, user_input, pc, yaml_data, analyzer, hop_level, previous_cuis,
          statements, current_hop_cuis, all_detailed_assertions, cui_based_links,
          consolidated_mapping, all_nodes, all_edges, files, transaction, result>>

Init ==
    /\ \/ /\ predication \in StoresOf(TraversalRows)
          /\ sentence = PlainSentenceTable
          /\ user_input \in TraversalInputs \cup EmptyPredicateInputs \cup FaultInputs
       \/ /\ predication \in StoresOf(RenamingRows)
          /\ sentence = PlainSentenceTable
          /\ user_input \in RenamingInputs
       \/ /\ predication \in StoresOf(NamingRows)
          /\ sentence \in {SentenceTableOf(pairs) : pairs \in NamingSentenceTables}
          /\ user_input \in NamingInputs
    /\ pc = "start"
    /\ yaml_data = <<>>
    /\ analyzer = <<>>
    /\ hop_level = 0
    /\ previous_cuis = <<>>
    /\ statements = <<>>
    /\ current_hop_cuis = {}
    /\ all_detailed_assertions = <<>>
    /\ cui_based_links = <<>>
    /\ consolidated_mapping = <<>>
    /\ all_nodes = {}
    /\ all_edges = {}
    /\ files = <<>>
    /\ transaction = "open"
    /\ raw_label = <<>>
    /\ cleaned_labels = <<>>
    /\ result = "running"

(***************************************************************************)
(* The run, step by step.                                                  *)
(***************************************************************************)
\* cli_interface: load_yaml_config on the --yaml-config file
LoadYaml ==
    /\ pc = "start"
    /\ user_input.entry = "yaml"
    /\ yaml_data' = load_yaml_config(YamlFile(user_input))
    /\ pc' = "loaded"
    /\ UNCHANGED <<transaction, raw_label, cleaned_labels, predication, sentence, user_input, analyzer, hop_level, previous_cuis, statements,
                   current_hop_cuis, all_detailed_assertions, cui_based_links, consolidated_mapping,
                   all_nodes, all_edges, files, result>>

\* cli_interface main: the analyzer built from the loaded YAML data
NewAnalyzerFromYaml ==
    /\ pc = "loaded"
    /\ LET config == create_dynamic_config_from_yaml(yaml_data)
           threshold == yaml_data.threshold
           degree == Get(yaml_data, "degree", DefaultDegree)
       IN  analyzer' = [config |-> config, threshold |-> threshold, degree |-> degree,
                        db_ops |-> GraphAnalyzerInit(config, threshold, yaml_data, degree)]
    /\ pc' = "ready"
    /\ UNCHANGED <<transaction, raw_label, cleaned_labels, predication, sentence, user_input, yaml_data, hop_level, previous_cuis, statements,
                   current_hop_cuis, all_detailed_assertions, cui_based_links, consolidated_mapping,
                   all_nodes, all_edges, files, result>>

\* GraphAnalyzer.__init__ called with a yaml_config_data dictionary that
\* names predication_types and blocklist_cuis
NewAnalyzerFromDict ==
    /\ pc = "start"
    /\ user_input.entry = "analyzer"
    /\ LET yaml_config_data == [predication_types |-> user_input.predication_type,
                                blocklist_cuis |-> user_input.blocklist_cuis]
           config == ConfigOf(user_input)
       IN  analyzer' = [config |-> config, threshold |-> user_input.min_pmids, degree |-> user_input.degree,
                        db_ops |-> GraphAnalyzerInit(config, user_input.min_pmids, yaml_config_data, user_input.degree)]
    /\ pc' = "ready"
    /\ UNCHANGED <<transaction, raw_label, cleaned_labels, predication, sentence, user_input, yaml_data, hop_level, previous_cuis, statements,
                   current_hop_cuis, all_detailed_assertions, cui_based_links, consolidated_mapping,
                   all_nodes, all_edges, files, result>>

\* DatabaseOperations built directly, then fetch_k_hop_relationships entered
NewDatabaseOperations ==
    /\ pc = "start"
    /\ user_input.entry = "db_ops"
    /\ LET config == ConfigOf(user_input)
       IN  analyzer' = [config |-> config, threshold |-> user_input.min_pmids, degree |-> user_input.degree,
                        db_ops |-> DatabaseOperationsInit(config, user_input.min_pmids, user_input.predication_type,
                                                          user_input.degree, user_input.blocklist_cuis,
                                                          user_input.thresholds_by_degree)]
    /\ pc' = "fetching"
    /\ hop_level' = 1
    /\ UNCHANGED <<transaction, raw_label, cleaned_labels, predication, sentence, user_input, yaml_data, previous_cuis, statements,
                   current_hop_cuis, all_detailed_assertions, cui_based_links, consolidated_mapping,
                   all_nodes, all_edges, files, result>>

\* a probe step that goes on to the hops whatever the probe said
ProbeStep_NoAbort ==
    /\ pc = "ready"
    /\ pc' = "fetching"
    /\ hop_level' = 1
    /\ UNCHANGED <<transaction, raw_label, cleaned_labels, predication, sentence, user_input, yaml_data, analyzer, previous_cuis, statements,
                   current_hop_cuis, all_detailed_assertions, cui_based_links, consolidated_mapping,
                   all_nodes, all_edges, files, result>>

\* the probe step shared by run_analysis and run_markov_blanket_analysis
ProbeStep ==
    /\ pc = "ready"
    /\ IF check_evidence_exists(analyzer, predication)
       THEN /\ pc' = "fetching"
            /\ hop_level' = 1
            /\ result' = result
       ELSE /\ pc' = "aborted"
            /\ hop_level' = hop_level
            /\ result' = "No evidence found"
    /\ UNCHANGED <<transaction, raw_label, cleaned_labels, predication, sentence, user_input, yaml_data, analyzer, previous_cuis, statements,
                   current_hop_cuis, all_detailed_assertions, cui_based_links, consolidated_mapping,
                   all_nodes, all_edges, files>>

\* GraphAnalyzer.run_analysis up to the probe
RunAnalysisProbe == user_input.mode = "general" /\ ProbeStep

\* MarkovBlanketAnalyzer.run_markov_blanket_analysis up to the probe
RunMarkovBlanketProbe == user_input.mode = "markov_blanket" /\ ProbeStep

\* the frontier bookkeeping of fetch_k_hop_relationships, kept on every hop
\* rather than on the first only
CollectHopCuis_EveryHop(hop, cuis, detailed_assertions) ==
    cuis \cup {detailed_assertions[i].subject_cui : i \in DOMAIN detailed_assertions}
         \cup {detailed_assertions[i].object_cui : i \in DOMAIN detailed_assertions}

\* fetch_k_hop_relationships: "For hop 1, collect the CUIs for use in
\* subsequent hops"
CollectHopCuis(hop, cuis, detailed_assertions) ==
    IF hop = 1
    THEN cuis \cup {detailed_assertions[i].subject_cui : i \in DOMAIN detailed_assertions}
              \cup {detailed_assertions[i].object_cui : i \in DOMAIN detailed_assertions}
    ELSE cuis

\* list.extend with the new items put in front of the list
extend_AtFront(list, items) == items \o list

\* all_detailed_assertions.extend(detailed_assertions)
extend(list, items) == list \o items

\* a statement executed on the connection of the run raises: psycopg2
\* connections are not in autocommit mode and the code never rolls back, so
\* after a statement that raised every later statement raises too
StatementRaises(kind, hop) ==
    \/ transaction = "aborted"
    \/ user_input.fault = kind /\ (kind = "hop" => user_input.fault_hop = hop)

\* an iteration that catches the error of its query and goes on to the next
\* hop with no rows
FetchHop_ContinueAfterError ==
    /\ pc = "fetching"
    /\ hop_level <= analyzer.db_ops.degree
    /\ LET previous == IF hop_level = 1 THEN {} ELSE current_hop_cuis
           fetched == fetch_n_hop_relationships(analyzer.db_ops, hop_level, previous, predication)
       IN  /\ previous_cuis' = Append(previous_cuis, previous)
           /\ statements' = IF fetched.executed
                            THEN Append(statements, [hop_level |-> hop_level, query |-> fetched.query, params |-> fetched.params])
                            ELSE statements
           /\ IF fetched.executed /\ (fetched.error \/ StatementRaises("hop", hop_level))
              THEN /\ hop_level' = hop_level + 1
                   /\ transaction' = "aborted"
                   /\ UNCHANGED <<pc, result, current_hop_cuis, all_detailed_assertions>>
              ELSE \E results \in OrderedResults(fetched.rows) :
                       LET raises == StatementRaises("sentences", hop_level)
                           detailed_assertions == _process_hop_results(results, hop_level, sentence, raises)
                       IN  /\ all_detailed_assertions' = extend(all_detailed_assertions, detailed_assertions)
                           /\ current_hop_cuis' = CollectHopCuis(hop_level, current_hop_cuis, detailed_assertions)
                           /\ hop_level' = hop_level + 1
                           /\ transaction' = IF raises /\ \E i \in DOMAIN results : results[i].pmid_sentence_id_list # {}
                                             THEN "aborted" ELSE transaction
                           /\ UNCHANGED <<pc, result>>
    /\ UNCHANGED <<raw_label, cleaned_labels, predication, sentence, user_input, yaml_data, analyzer, cui_based_links,
                   consolidated_mapping, all_nodes, all_edges, files>>

\* one iteration of the loop of fetch_k_hop_relationships
FetchHop ==
    /\ pc = "fetching"
    /\ hop_level <= analyzer.db_ops.degree
    /\ LET previous == IF hop_level = 1 THEN {} ELSE current_hop_cuis
           fetched == fetch_n_hop_relationships(analyzer.db_ops, hop_level, previous, predication)
       IN  /\ previous_cuis' = Append(previous_cuis, previous)
           /\ statements' = IF fetched.executed
                            THEN Append(statements, [hop_level |-> hop_level, query |-> fetched.query, params |-> fetched.params])
                            ELSE statements
           /\ IF fetched.executed /\ (fetched.error \/ StatementRaises("hop", hop_level))
              THEN /\ pc' = "failed"
                   /\ result' = "exception"
                   /\ transaction' = "aborted"
                   /\ UNCHANGED <<hop_level, current_hop_cuis, all_detailed_assertions>>
              ELSE \E results \in OrderedResults(fetched.rows) :
                       LET raises == StatementRaises("sentences", hop_level)
                           detailed_assertions == _process_hop_results(results, hop_level, sentence, raises)
                       IN  /\ all_detailed_assertions' = extend(all_detailed_assertions, detailed_assertions)
                           /\ current_hop_cuis' = CollectHopCuis(hop_level, current_hop_cuis, detailed_assertions)
                           /\ hop_level' = hop_level + 1
                           /\ transaction' = IF raises /\ \E i \in DOMAIN results : results[i].pmid_sentence_id_list # {}
                                             THEN "aborted" ELSE transaction
                           /\ UNCHANGED <<pc, result>>
    /\ UNCHANGED <<raw_label, cleaned_labels, predication, sentence, user_input, yaml_data, analyzer, cui_based_links,
                   consolidated_mapping, all_nodes, all_edges, files>>

\* the end of fetch_k_hop_relationships: canonical names and links
FinishFetch ==
    /\ pc = "fetching"
    /\ hop_level > analyzer.db_ops.degree
    /\ cui_based_links' = CuiBasedLinks(all_detailed_assertions)
    /\ IF user_input.mode = "library"
       THEN pc' = "done" /\ result' = "returned"
       ELSE pc' = "fetched" /\ result' = result
    /\ UNCHANGED <<transaction, raw_label, cleaned_labels, predication, sentence, user_input, yaml_data, analyzer, hop_level, previous_cuis,
                   statements, current_hop_cuis, all_detailed_assertions, consolidated_mapping,
                   all_nodes, all_edges, files>>

\* run_markov_blanket_analysis: compute_markov_blankets, whose outcome query
\* is a WITH clause without a statement and whose exposure parameters add a
\* tuple to a list; either raises
ComputeMarkovBlankets ==
    /\ pc = "fetched"
    /\ user_input.mode = "markov_blanket"
    /\ compute_markov_blankets(mb_computer(analyzer), predication).error
    /\ pc' = "failed"
    /\ result' = "exception"
    /\ UNCHANGED <<transaction, raw_label, cleaned_labels, predication, sentence, user_input, yaml_data, analyzer, hop_level, previous_cuis,
                   statements, current_hop_cuis, all_detailed_assertions, cui_based_links,
                   consolidated_mapping, all_nodes, all_edges, files>>

\* run_analysis: graph construction
ConstructGraph ==
    /\ pc = "fetched"
    /\ user_input.mode = "general"
    /\ \E cui_name_mapping \in fetch_cui_name_mappings(analyzer.config.exposure_cui_list \o analyzer.config.outcome_cui_list,
                                                        sentence, StatementRaises("names", 0)) :
           LET mapping == create_consolidated_node_mapping(analyzer.db_ops, cui_name_mapping)
               edges == ConsolidatedEdges(cui_based_links, mapping)
           IN  /\ consolidated_mapping' = mapping
               /\ all_edges' = edges
               /\ all_nodes' = {e[1] : e \in edges} \cup {e[2] : e \in edges}
    /\ transaction' = IF StatementRaises("names", 0) THEN "aborted" ELSE transaction
    /\ pc' = "graph"
    /\ UNCHANGED <<raw_label, cleaned_labels, predication, sentence, user_input, yaml_data, analyzer, hop_level, previous_cuis,
                   statements, current_hop_cuis, all_detailed_assertions, cui_based_links, files, result>>

\* GraphAnalyzer.generate_basic_dagitty_script, on a connection of its own
generate_basic_dagitty_script ==
    /\ pc = "graph"
    /\ \E cui_name_mapping \in fetch_cui_name_mappings(analyzer.config.exposure_cui_list \o analyzer.config.outcome_cui_list,
                                                        sentence, user_input.fault = "names") :
           LET mapping == create_consolidated_node_mapping(analyzer.db_ops, cui_name_mapping)
               consolidated_exposure_name == clean_output_name(analyzer.config.exposure_name)
               consolidated_outcome_name == clean_output_name(analyzer.config.outcome_name)
               cleaned_nodes == CleanedNodes(all_nodes, mapping)
               cleaned_edges == CleanedEdges(all_edges, mapping)
           IN  files' = ("dag" :> [exposure |-> consolidated_exposure_name,
                                   outcome |-> consolidated_outcome_name,
                                   nodes |-> cleaned_nodes \ {consolidated_exposure_name, consolidated_outcome_name},
                                   edges |-> cleaned_edges]) @@ files
    /\ pc' = "dag"
    /\ UNCHANGED <<transaction, raw_label, cleaned_labels, predication, sentence, user_input, yaml_data, analyzer, hop_level, previous_cuis,
                   statements, current_hop_cuis, all_detailed_assertions, cui_based_links,
                   consolidated_mapping, all_nodes, all_edges, result>>

\* GraphAnalyzer.save_results_and_metadata, then run_analysis returns
save_results_and_metadata ==
    /\ pc = "dag"
    /\ \E order \in Listings(SentenceTexts) :
          files' = ("causal_assertions" :> create_optimized_structure(all_detailed_assertions, order))
                   @@ ("performance_metrics" :> "timing_data") @@ files
    /\ pc' = "done"
    /\ result' = "timing_data"
    /\ UNCHANGED <<transaction, raw_label, cleaned_labels, predication, sentence, user_input, yaml_data, analyzer, hop_level, previous_cuis,
                   statements, current_hop_cuis, all_detailed_assertions, cui_based_links,
                   consolidated_mapping, all_nodes, all_edges>>

Next ==
    \/ LoadYaml
    \/ NewAnalyzerFromYaml
    \/ NewAnalyzerFromDict
    \/ NewDatabaseOperations
    \/ RunAnalysisProbe
    \/ RunMarkovBlanketProbe
    \/ FetchHop
    \/ FinishFetch
    \/ ComputeMarkovBlankets
    \/ ConstructGraph
    \/ generate_basic_dagitty_script
    \/ save_results_and_metadata

Spec == Init /\ [][Next]_vars

(***************************************************************************)
(* clean_output_name on its own: every label of up to MaxLen characters is *)
(* cleaned, and what comes out is cleaned again.                           *)
(***************************************************************************)
\* a letter, the underscore, and characters the regular expression replaces
LabelChars == {"a", "_", ".", " "}

Labels == UNION {[1..n -> LabelChars] : n \in 0..MaxLen}

CleanInit ==
    /\ raw_label \in Labels
    /\ cleaned_labels = <<>>
    /\ pc = "label"
    /\ predication = {}
    /\ sentence = {}
    /\ user_input = UserInput("db_ops", "library", <<"C1">>, raw_label, <<>>, "blocklist_cuis", 1, 1, <<>>)
    /\ yaml_data = <<>>
    /\ analyzer = <<>>
    /\ hop_level = 0
    /\ previous_cuis = <<>>
    /\ statements = <<>>
    /\ current_hop_cuis = {}
    /\ all_detailed_assertions = <<>>
    /\ cui_based_links = <<>>
    /\ consolidated_mapping = <<>>
    /\ all_nodes = {}
    /\ all_edges = {}
    /\ files = <<>>
    /\ transaction = "open"
    /\ result = "running"

\* clean_output_name(raw_label)
CleanLabel ==
    /\ pc = "label"
    /\ cleaned_labels' = <<clean_output_name(raw_label)>>
    /\ pc' = "cleaned"
    /\ UNCHANGED <<raw_label, predication, sentence, user_input, yaml_data, analyzer, hop_level, previous_cuis,
                   statements, current_hop_cuis, all_detailed_assertions, cui_based_links,
                   consolidated_mapping, all_nodes, all_edges, files, transaction, result>>

\* clean_output_name on the label it returned, as the second pass of
\* generate_basic_dagitty_script applies it to the nodes of the graph
CleanAgain ==
    /\ pc = "cleaned"
    /\ cleaned_labels' = Append(cleaned_labels, clean_output_name(cleaned_labels[1]))
    /\ pc' = "recleaned"
    /\ UNCHANGED <<raw_label, predication, sentence, user_input, yaml_data, analyzer, hop_level, previous_cuis,
                   statements, current_hop_cuis, all_detailed_assertions, cui_based_links,
                   consolidated_mapping, all_nodes, all_edges, files, transaction, result>>

CleanNext ==
    \/ CleanLabel
    \/ CleanAgain

CleanSpec == CleanInit /\ [][CleanNext]_vars

(***************************************************************************)
(* Properties.                                                             *)
(***************************************************************************)
\* the hop an assertion was admitted at, read back from its label
HopOf(assertion) == CHOOSE h \in 1..5 : _get_hop_name(h) = assertion.relationship_degree

\* the assertions admitted at hop h
AssertionsAt(h) ==
    {all_detailed_assertions[i] : i \in {j \in DOMAIN all_detailed_assertions : HopOf(all_detailed_assertions[j]) = h}}

\* threshold(h) of the configuration of the run: the per-degree entry, else
\* min_pmids
RunThresholdOf(h) == Get(user_input.thresholds_by_degree, h, user_input.min_pmids)

\* threshold(h) of the configuration fetch_k_hop_relationships works under,
\* the arguments its DatabaseOperations was constructed with: the per-degree
\* entry when the caller constructed it, none when GraphAnalyzer did
ThresholdOf(h) == IF user_input.entry = "db_ops" THEN RunThresholdOf(h) ELSE user_input.min_pmids

\* the rows of the store behind an assertion
RowsOf(assertion) ==
    {r \in predication : /\ r.subject_cui = assertion.subject_cui /\ r.subject_name = assertion.subject_name
                         /\ r.object_cui = assertion.object_cui /\ r.object_name = assertion.object_name
                         /\ r.predicate = assertion.predicate}

GraphBuilt == pc \in {"graph", "dag", "done"} /\ user_input.mode = "general"

\* the label the graph gives a CUI that occurs in the assertions
NodeOfCui(cui) ==
    apply_consolidated_mapping(clean_output_name(build_cui_to_name_mapping(all_detailed_assertions)[cui]),
                               consolidated_mapping)

BlocklistedCuis == Range(user_input.blocklist_cuis)

\* C1: in a run of run_analysis whose configuration names a non-empty
\* blocklist, however the configuration was loaded, no retained assertion has
\* its subject or object CUI in the blocklist and no node of the graph comes
\* from a blocklisted CUI
C1_BlocklistHonored ==
    (user_input.mode = "general" /\ BlocklistedCuis # {}) =>
        /\ \A i \in DOMAIN all_detailed_assertions :
              /\ all_detailed_assertions[i].subject_cui \notin BlocklistedCuis
              /\ all_detailed_assertions[i].object_cui \notin BlocklistedCuis
        /\ GraphBuilt =>
              \A c \in BlocklistedCuis \cap DOMAIN build_cui_to_name_mapping(all_detailed_assertions) :
                  NodeOfCui(c) \notin all_nodes

\* C2: every assertion admitted at hop h has an evidence_count that is its
\* number of distinct supporting pmids in the store and is at least
\* threshold(h)
C2_ThresholdRespected ==
    \A i \in DOMAIN all_detailed_assertions :
        LET a == all_detailed_assertions[i]
        IN  /\ a.evidence_count = Cardinality({r.pmid : r \in RowsOf(a)})
            /\ a.evidence_count >= ThresholdOf(HopOf(a))

\* C2 happens: a second-hop assertion admitted under a per-degree threshold
\* that is higher than the flat one
C2_Witness ==
    /\ pc = "done"
    /\ ThresholdOf(2) > ThresholdOf(1)
    /\ \E a \in AssertionsAt(2) : a.evidence_count >= ThresholdOf(2)

\* C3: the parameters of every hop statement are the predicates, the CUI
\* arrays, the two blocklist arrays, then the integer threshold, and the k-th
\* parameter is of the kind the k-th placeholder expects
C3_ParametersMatchPlaceholders ==
    \A i \in DOMAIN statements :
        LET query == statements[i].query
            params == statements[i].params
        IN  /\ Len(params) = Len(query)
            /\ \A k \in DOMAIN query : params[k].kind = SlotKind(query[k])
            /\ \A j, k \in DOMAIN params :
                  (j < k) => ~(params[j].kind = "int") /\ ~(params[j].kind = "array" /\ params[k].kind = "text")

\* the CUIs of the assertions retained at hop 1
FirstHopCuis ==
    {a.subject_cui : a \in AssertionsAt(1)} \cup {a.object_cui : a \in AssertionsAt(1)}

\* C4: for every hop h >= 2 the frontier given to the hop is exactly the set
\* of CUIs of the hop-1 assertions, and every assertion of hop h has its
\* subject or its object in that set
C4_FrontierIsFirstHop ==
    /\ \A h \in DOMAIN previous_cuis : h >= 2 => previous_cuis[h] = FirstHopCuis
    /\ \A i \in DOMAIN all_detailed_assertions :
          LET a == all_detailed_assertions[i]
          IN  HopOf(a) >= 2 => (a.subject_cui \in FirstHopCuis \/ a.object_cui \in FirstHopCuis)

\* C4 happens: the second hop found a CUI that hop 1 had not, and a third hop
\* ran after it
C4_Witness ==
    /\ Len(previous_cuis) >= 3
    /\ \E a \in AssertionsAt(2) : a.object_cui \notin FirstHopCuis
    /\ AssertionsAt(3) # {}

ExcludedSemtypes == {"acty", "bhvr", "evnt", "gora", "mcha", "ocac"}

\* C5: no retained assertion has a subject or object semantic type in
\* {acty, bhvr, evnt, gora, mcha, ocac}
C5_SemtypesExcluded ==
    \A i \in DOMAIN all_detailed_assertions :
        \A r \in RowsOf(all_detailed_assertions[i]) :
            r.subject_semtype \notin ExcludedSemtypes /\ r.object_semtype \notin ExcludedSemtypes

AfterProbe == user_input.mode # "library" /\ pc \notin {"start", "loaded", "ready"}

\* C6: when check_evidence_exists is false the run returns 'No evidence
\* found', having run no hop query and written no file
C6_NoEvidenceNoArtifacts ==
    (AfterProbe /\ ~check_evidence_exists(analyzer, predication)) =>
        /\ pc = "aborted"
        /\ result = "No evidence found"
        /\ statements = <<>> /\ previous_cuis = <<>> /\ all_detailed_assertions = <<>>
        /\ DOMAIN files = {}

\* C6 happens: a Markov blanket run over a store with rows ended on the probe
C6_Witness ==
    /\ pc = "aborted"
    /\ user_input.mode = "markov_blanket"
    /\ predication # {}

\* the filter of the first hop retains a group: configured predicate, either
\* end among the exposure or outcome CUIs, neither end blocklisted, grouped
\* by names, CUIs and predicate, at least threshold(1) distinct pmids
FirstHopWouldRetain ==
    LET ends == Range(user_input.exposure_cuis) \cup Range(user_input.outcome_cuis)
        matching == {r \in predication :
                        /\ r.predicate \in Range(analyzer.db_ops.predication_types)
                        /\ (r.subject_cui \in ends \/ r.object_cui \in ends)
                        /\ r.subject_cui \notin BlocklistedCuis /\ r.object_cui \notin BlocklistedCuis}
    IN  \E r \in matching :
            Cardinality({x.pmid : x \in {y \in matching : HopGroupKey(y) = HopGroupKey(r)}}) >= ThresholdOf(1)

\* some (exposure CUI, outcome CUI, predicate) triple, exposure as subject
\* and outcome as object, has at least min_pmids distinct pmids
DirectTripleMeetsThreshold ==
    \E e \in Range(user_input.exposure_cuis), o \in Range(user_input.outcome_cuis),
       p \in Range(analyzer.db_ops.predication_types) :
        Cardinality({r.pmid : r \in {x \in predication : x.subject_cui = e /\ x.object_cui = o /\ x.predicate = p}})
            >= user_input.min_pmids

ExpectedLabel(cui) ==
    IF cui \in Range(user_input.exposure_cuis) THEN clean_output_name(user_input.exposure_name)
    ELSE IF cui \in Range(user_input.outcome_cuis) THEN clean_output_name(user_input.outcome_name)
    ELSE clean_output_name(build_cui_to_name_mapping(all_detailed_assertions)[cui])

\* C8: every edge endpoint from an exposure CUI carries clean(exposure
\* label), every endpoint from an outcome CUI clean(outcome label), every
\* other endpoint its own cleaned canonical name
C8_EndpointsConsolidated ==
    GraphBuilt =>
        all_edges = {e \in {<<ExpectedLabel(all_detailed_assertions[i].subject_cui),
                              ExpectedLabel(all_detailed_assertions[i].object_cui)>> :
                                i \in DOMAIN all_detailed_assertions} : e[1] # e[2]}

\* C9: neither the edge set of run_analysis nor the edge set written by
\* generate_basic_dagitty_script holds a pair (u, u)
C9_NoSelfLoops ==
    /\ \A e \in all_edges : e[1] # e[2]
    /\ "dag" \in DOMAIN files => \A e \in files["dag"].edges : e[1] # e[2]

\* C9 happens: an assertion between two distinct CUIs whose ends consolidate
\* to one label went through graph construction and the DAG was written
C9_Witness ==
    /\ "dag" \in DOMAIN files
    /\ \E i \in DOMAIN all_detailed_assertions :
          /\ all_detailed_assertions[i].subject_cui # all_detailed_assertions[i].object_cui
          /\ ConsolidatedEdge(cui_based_links[i], consolidated_mapping)[1]
                = ConsolidatedEdge(cui_based_links[i], consolidated_mapping)[2]

\* C10: cleaning a node of the graph and applying the consolidation map
\* again returns the node, and the second pass of
\* generate_basic_dagitty_script leaves the node and edge sets unchanged
C10_ConsolidationFixedPoint ==
    GraphBuilt =>
        /\ \A n \in all_nodes : apply_consolidated_mapping(clean_output_name(n), consolidated_mapping) = n
        /\ "dag" \in DOMAIN files =>
              /\ files["dag"].edges = all_edges
              /\ files["dag"].nodes \cup ({files["dag"].exposure, files["dag"].outcome} \cap all_nodes) = all_nodes

\* the links of fetch_k_hop_relationships have been built
LinksBuilt == pc \in {"fetched", "graph", "dag", "done"}

\* the surface names the assertion list gives a CUI
NamesOf(cui) ==
    {all_detailed_assertions[i].subject_name :
        i \in {j \in DOMAIN all_detailed_assertions : all_detailed_assertions[j].subject_cui = cui}}
    \cup {all_detailed_assertions[i].object_name :
        i \in {j \in DOMAIN all_detailed_assertions : all_detailed_assertions[j].object_cui = cui}}

\* the subject and object occurrences of a name for a CUI
NameCount(cui, name) ==
    Cardinality({i \in DOMAIN all_detailed_assertions :
        all_detailed_assertions[i].subject_cui = cui /\ all_detailed_assertions[i].subject_name = name})
    + Cardinality({i \in DOMAIN all_detailed_assertions :
        all_detailed_assertions[i].object_cui = cui /\ all_detailed_assertions[i].object_name = name})

\* the place of the first occurrence of a name for a CUI in the assertion
\* list, the subject of an assertion coming before its object
FirstMention(cui, name) ==
    LET places == {2 * i - 1 : i \in {j \in DOMAIN all_detailed_assertions :
                        /\ all_detailed_assertions[j].subject_cui = cui
                        /\ all_detailed_assertions[j].subject_name = name}}
                  \cup {2 * i : i \in {j \in DOMAIN all_detailed_assertions :
                        /\ all_detailed_assertions[j].object_cui = cui
                        /\ all_detailed_assertions[j].object_name = name}}
    IN  CHOOSE k \in places : \A p \in places : k <= p

\* no name of the CUI occurs more often, and none as often occurs earlier
ElectedByFirstOccurrence(cui, name) ==
    /\ name \in NamesOf(cui)
    /\ \A m \in NamesOf(cui) \ {name} :
          \/ NameCount(cui, name) > NameCount(cui, m)
          \/ /\ NameCount(cui, name) = NameCount(cui, m)
             /\ FirstMention(cui, name) <= FirstMention(cui, m)

\* C11: the canonical name of every CUI is its most frequent surface name
\* over subject and object occurrences, and among the names that tie for
\* the maximum the one that occurs first in the assertion list
C11_MostFrequentFirstOccurrence ==
    LinksBuilt =>
        /\ Len(cui_based_links) = Len(all_detailed_assertions)
        /\ \A cui \in CUIs :
              NamesOf(cui) # {} =>
                  \E name \in NamesOf(cui) :
                      /\ ElectedByFirstOccurrence(cui, name)
                      /\ \A i \in DOMAIN all_detailed_assertions :
                            /\ all_detailed_assertions[i].subject_cui = cui => cui_based_links[i][1] = name
                            /\ all_detailed_assertions[i].object_cui = cui => cui_based_links[i][2] = name

\* C11 happens: two names of a CUI tie for the maximum and the links carry
\* the one that occurs first, which is not the smaller in byte order; and a
\* name that occurs most often was elected over one that occurs earlier
C11_Witness ==
    /\ LinksBuilt
    /\ \E i \in DOMAIN all_detailed_assertions :
          \E m \in NamesOf(all_detailed_assertions[i].object_cui) :
              LET cui == all_detailed_assertions[i].object_cui
                  n == cui_based_links[i][2]
              IN  /\ m # n
                  /\ NameCount(cui, m) = NameCount(cui, n)
                  /\ FirstMention(cui, n) < FirstMention(cui, m)
                  /\ ~StrLeq(clean_output_name(n), clean_output_name(m))

\* C11 happens, second case: the elected name occurs more often than a
\* name of the same CUI that occurs before it
C11_WitnessFrequency ==
    /\ LinksBuilt
    /\ \E i \in DOMAIN all_detailed_assertions :
          \E m \in NamesOf(all_detailed_assertions[i].subject_cui) :
              LET cui == all_detailed_assertions[i].subject_cui
                  n == cui_based_links[i][1]
              IN  /\ NameCount(cui, n) > NameCount(cui, m)
                  /\ FirstMention(cui, m) < FirstMention(cui, n)

\* no name of the CUI occurs more often, and none as often has a smaller
\* cleaned form in byte order
ElectedBySmallestCleanedForm(cui, name) ==
    /\ name \in NamesOf(cui)
    /\ \A m \in NamesOf(cui) :
          \/ NameCount(cui, name) > NameCount(cui, m)
          \/ /\ NameCount(cui, name) = NameCount(cui, m)
             /\ StrLeq(clean_output_name(name), clean_output_name(m))

\* C12: among the names of a CUI that tie for most frequent the canonical
\* name is the one whose cleaned form is smallest in byte order, whatever
\* the order of the assertion list
C12_TieBrokenByCleanedForm ==
    LinksBuilt =>
        \A i \in DOMAIN all_detailed_assertions :
            /\ ElectedBySmallestCleanedForm(all_detailed_assertions[i].subject_cui, cui_based_links[i][1])
            /\ ElectedBySmallestCleanedForm(all_detailed_assertions[i].object_cui, cui_based_links[i][2])

\* C13: two assertions with the same subject CUI and the same object CUI
\* yield the same link, whatever their surface names, so there are at most
\* as many distinct links as distinct (subject CUI, object CUI) pairs
C13_OneLinkPerCuiPair ==
    LinksBuilt =>
        /\ \A i, j \in DOMAIN all_detailed_assertions :
              /\ all_detailed_assertions[i].subject_cui = all_detailed_assertions[j].subject_cui
              /\ all_detailed_assertions[i].object_cui = all_detailed_assertions[j].object_cui
              => /\ i \in DOMAIN cui_based_links /\ j \in DOMAIN cui_based_links
                 /\ cui_based_links[i] = cui_based_links[j]
        /\ Cardinality(Range(cui_based_links))
              <= Cardinality({<<all_detailed_assertions[i].subject_cui, all_detailed_assertions[i].object_cui>> :
                                i \in DOMAIN all_detailed_assertions})

\* C13 happens: two assertions of one CUI pair differ in both surface
\* names and the links have been built
C13_Witness ==
    /\ LinksBuilt
    /\ \E i, j \in DOMAIN all_detailed_assertions :
          /\ all_detailed_assertions[i].subject_cui = all_detailed_assertions[j].subject_cui
          /\ all_detailed_assertions[i].object_cui = all_detailed_assertions[j].object_cui
          /\ all_detailed_assertions[i].subject_name # all_detailed_assertions[j].subject_name
          /\ all_detailed_assertions[i].object_name # all_detailed_assertions[j].object_name

\* the integer parameters bound to the statement of one hop
ThresholdParams(statement) ==
    {statement.params[k].val : k \in {j \in DOMAIN statement.params : statement.params[j].kind = "int"}}

\* C14: the minimum evidence bound to the query of hop h is
\* thresholds_by_degree[h] when the configuration of the run supplies it,
\* and the flat threshold otherwise
C14_HopUsesConfiguredThreshold ==
    \A i \in DOMAIN statements :
        ThresholdParams(statements[i]) = {RunThresholdOf(statements[i].hop_level)}

\* the (subject CUI, object CUI, predicate) triple of an assertion or a row
TripleOf(a) == <<a.subject_cui, a.object_cui, a.predicate>>

\* C15: a hop holds at most one assertion per (subject CUI, object CUI,
\* predicate) triple, its evidence_count is the number of distinct pmids of
\* that triple in the store, and the assertion list repeats a triple only
\* across different hops
C15_OneAssertionPerTripleAndHop ==
    /\ \A i, j \in DOMAIN all_detailed_assertions :
          /\ TripleOf(all_detailed_assertions[i]) = TripleOf(all_detailed_assertions[j])
          /\ HopOf(all_detailed_assertions[i]) = HopOf(all_detailed_assertions[j])
          => i = j
    /\ \A i \in DOMAIN all_detailed_assertions :
          all_detailed_assertions[i].evidence_count
            = Cardinality({r.pmid : r \in {x \in predication : TripleOf(x) = TripleOf(all_detailed_assertions[i])}})

\* the dossier of the run has been written
DossierWritten == "causal_assertions" \in DOMAIN files

\* C16: every pmid in the pmid_refs of a compact assertion of the dossier
\* is a key of pmid_sentences
C16_PmidRefsResolve ==
    DossierWritten =>
        \A i \in DOMAIN files["causal_assertions"].assertions :
            Range(files["causal_assertions"].assertions[i].pmid_refs)
                \subseteq DOMAIN files["causal_assertions"].pmid_sentences

\* C16 happens: the dossier holds an assertion with a reference, and one
\* whose supporting pmid p2 has no sentence in the store
C16_Witness ==
    /\ DossierWritten
    /\ \E i \in DOMAIN files["causal_assertions"].assertions :
          files["causal_assertions"].assertions[i].pmid_refs # <<>>
    /\ \E i \in DOMAIN all_detailed_assertions :
          \E pmid \in DOMAIN all_detailed_assertions[i].pmid_data :
              all_detailed_assertions[i].pmid_data[pmid] = {}

\* C17: the pmid_refs of every compact assertion are exactly the pmids of
\* the publications that support the assertion in the store, so there are
\* ev_count of them, also when some of those pmids have no sentence text
C17_PmidRefsAreSupportingPmids ==
    DossierWritten =>
        \A i \in DOMAIN files["causal_assertions"].assertions :
            LET compact == files["causal_assertions"].assertions[i]
            IN  /\ Range(compact.pmid_refs) = {r.pmid : r \in RowsOf(all_detailed_assertions[i])}
                /\ Len(compact.pmid_refs) = compact.ev_count

\* the sequence holds no element twice
NoDuplicates(seq) == \A i, j \in DOMAIN seq : seq[i] = seq[j] => i = j

\* C18: for every pmid p of the dossier, pmid_sentences[p] holds no
\* sentence twice, whatever the number of hops and of assertions p supports
C18_SentencesDeduplicated ==
    DossierWritten =>
        \A pmid \in DOMAIN files["causal_assertions"].pmid_sentences :
            NoDuplicates(files["causal_assertions"].pmid_sentences[pmid])

\* C18 happens: a pmid with two sentences supports assertions of two
\* different hops and the dossier lists both sentences under it
C18_Witness ==
    /\ DossierWritten
    /\ \E pmid \in DOMAIN files["causal_assertions"].pmid_sentences :
          /\ Len(files["causal_assertions"].pmid_sentences[pmid]) = 2
          /\ \E i, j \in DOMAIN all_detailed_assertions :
                /\ HopOf(all_detailed_assertions[i]) # HopOf(all_detailed_assertions[j])
                /\ pmid \in DOMAIN all_detailed_assertions[i].pmid_data
                /\ pmid \in DOMAIN all_detailed_assertions[j].pmid_data
                /\ all_detailed_assertions[i].pmid_data[pmid] # {}
                /\ all_detailed_assertions[j].pmid_data[pmid] # {}

\* the (pmid, sentence_id) pairs referenced by the assertions retained at
\* hop h
ReferencedPairs(h) ==
    UNION {{<<r.pmid, r.sentence_id>> : r \in RowsOf(a)} : a \in AssertionsAt(h)}

\* C19: every sentence text stored under a pmid p for an assertion of hop h
\* is the text of a (p, sentence_id) pair referenced by an assertion
\* retained at hop h
C19_OnlyReferencedSentences ==
    \A i \in DOMAIN all_detailed_assertions :
        \A pmid \in DOMAIN all_detailed_assertions[i].pmid_data :
            \A text \in all_detailed_assertions[i].pmid_data[pmid] :
                \E row \in sentence :
                    /\ row.pmid = pmid
                    /\ row.sentence = text
                    /\ <<pmid, row.sentence_id>> \in ReferencedPairs(HopOf(all_detailed_assertions[i]))

\* the run has reached compute_markov_blankets
MarkovBlanketsAttempted ==
    /\ user_input.mode = "markov_blanket"
    /\ pc = "failed"
    /\ hop_level > analyzer.db_ops.degree

\* the surface names the store gives a CUI
SurfaceNames(cui) ==
    {r.subject_name : r \in {x \in predication : x.subject_cui = cui}}
    \cup {r.object_name : r \in {x \in predication : x.object_cui = cui}}

\* C20: for every exposure or outcome CUI t, the spouse part of the Markov
\* blanket statement for t, the parents of t's children, selects no surface
\* name of t
C20_SpousesExcludeTarget ==
    MarkovBlanketsAttempted =>
        /\ \A t \in Range(analyzer.config.outcome_cui_list) :
              children_parents(analyzer.db_ops.predication_types, analyzer.threshold, t, {}, predication)
                \cap SurfaceNames(t) = {}
        /\ \A t \in Range(analyzer.config.exposure_cui_list) :
              children_parents(analyzer.db_ops.predication_types, analyzer.threshold, t,
                               Range(analyzer.config.outcome_cui_list), predication)
                \cap SurfaceNames(t) = {}

\* the Markov blanket of one target as the three parts define it
MarkovBlanketOf(t, not_in) ==
    markov_blanket_parents(analyzer.db_ops.predication_types, analyzer.threshold, t, predication)
    \cup markov_blanket_children(analyzer.db_ops.predication_types, analyzer.threshold, t, predication)
    \cup children_parents(analyzer.db_ops.predication_types, analyzer.threshold, t, not_in, predication)

\* C21: compute_markov_blankets returns the union, over every exposure and
\* outcome CUI, of the names of its parents, children and spouses that meet
\* the threshold, together with the cleaned exposure and outcome labels
C21_MarkovBlanketUnionReturned ==
    MarkovBlanketsAttempted =>
        LET mb_union == compute_markov_blankets(mb_computer(analyzer), predication)
        IN  /\ ~mb_union.error
            /\ mb_union.nodes =
                  UNION {MarkovBlanketOf(t, {}) : t \in Range(analyzer.config.outcome_cui_list)}
                  \cup UNION {MarkovBlanketOf(t, Range(analyzer.config.outcome_cui_list)) :
                                t \in Range(analyzer.config.exposure_cui_list)}
                  \cup {clean_output_name(analyzer.config.exposure_name),
                        clean_output_name(analyzer.config.outcome_name)}

DagWritten == "dag" \in DOMAIN files

\* the nodes the DAG script declares: the two tagged lines and the others
DeclaredNodes(dag) == dag.nodes \cup {dag.exposure, dag.outcome}

\* C23: in the DAG script every endpoint of every written edge is a
\* declared node, the node tagged exposure is the cleaned exposure label and
\* the node tagged outcome is the cleaned outcome label, neither is declared
\* a second time without its tag, and no edge is written from a node to
\* itself
C23_DagWellFormed ==
    DagWritten =>
        LET dag == files["dag"]
        IN  /\ \A e \in dag.edges : e[1] \in DeclaredNodes(dag) /\ e[2] \in DeclaredNodes(dag) /\ e[1] # e[2]
            /\ dag.exposure = clean_output_name(analyzer.config.exposure_name)
            /\ dag.outcome = clean_output_name(analyzer.config.outcome_name)
            /\ dag.nodes \cap {dag.exposure, dag.outcome} = {}

\* a DAG script with an edge between two untagged nodes and an edge whose
\* endpoint the second consolidation pass renamed
C23_Witness ==
    /\ DagWritten
    /\ \E e \in files["dag"].edges : e[1] \in files["dag"].nodes /\ e[2] \in files["dag"].nodes
    /\ files["dag"].edges # all_edges

\* the run has sent a statement to the database: the probe of run_analysis
\* or a hop query
DatabaseActivity ==
    \/ statements # <<>>
    \/ user_input.entry # "db_ops" /\ pc \notin {"start", "loaded", "ready"}

\* C24: a run configured with an empty list of predication types sends no
\* statement to the database
C24_EmptyPredicatesRejected ==
    user_input.predication_type = <<>> => ~DatabaseActivity

\* the keys the consolidated mapping must hold for the CUIs the sentence
\* table gave no name: the cleaned Exposure_{CUI} and Outcome_{CUI}
FallbackKeysPresent(mapping, cui_name_mapping) ==
    /\ \A i \in DOMAIN analyzer.config.exposure_cui_list :
          LET cui == analyzer.config.exposure_cui_list[i]
              key == clean_output_name(Str_Exposure_ \o CuiChars(cui))
          IN  cui \notin DOMAIN cui_name_mapping =>
                  key \in DOMAIN mapping /\ mapping[key] \in {clean_output_name(analyzer.config.exposure_name),
                                                               clean_output_name(analyzer.config.outcome_name)}
    /\ \A i \in DOMAIN analyzer.config.outcome_cui_list :
          LET cui == analyzer.config.outcome_cui_list[i]
              key == clean_output_name(Str_Outcome_ \o CuiChars(cui))
          IN  cui \notin DOMAIN cui_name_mapping =>
                  key \in DOMAIN mapping /\ mapping[key] = clean_output_name(analyzer.config.outcome_name)

\* the names the sentence table holds for the exposure and outcome CUIs,
\* unless the statement raises
NamesFetched ==
    fetch_cui_name_mappings(analyzer.config.exposure_cui_list \o analyzer.config.outcome_cui_list,
                            sentence, StatementRaises("names", 0))

\* C25: when the canonical-name statement raises or returns no name for an
\* exposure or outcome CUI the consolidated mapping holds the fallback key
\* of that CUI, when the sentence statement raises the pmids of the hop get
\* empty sentence lists, and a run in which either statement raised does
\* not fail
C25_PartialFetchNeverFatal ==
    /\ GraphBuilt => \E cui_name_mapping \in NamesFetched : FallbackKeysPresent(consolidated_mapping, cui_name_mapping)
    /\ user_input.fault = "sentences" =>
           \A i \in DOMAIN all_detailed_assertions :
               \A pmid \in DOMAIN all_detailed_assertions[i].pmid_data : all_detailed_assertions[i].pmid_data[pmid] = {}
    /\ user_input.fault \in {"names", "sentences"} => pc # "failed"

\* C26: cleaning the label clean_output_name returned returns it unchanged
C26_CleanIdempotent ==
    Len(cleaned_labels) = 2 => cleaned_labels[2] = cleaned_labels[1]

\* a label the first cleaning changed, by replacing, collapsing and
\* stripping, has been cleaned twice
C26_Witness ==
    /\ Len(cleaned_labels) = 2
    /\ raw_label = <<".", "a", "_", ".">>
    /\ cleaned_labels[1] = <<"a">>

\* C27: clean_output_name never returns the empty label: for the empty
\* label, as for a label that cleans to nothing, it returns unknown_node
C27_NeverEmptyLabel ==
    \A i \in DOMAIN cleaned_labels :
        /\ cleaned_labels[i] # <<>>
        /\ (i = 1 /\ StripUnderscores(CollapseUnderscores(SubSpecialRuns(raw_label))) = <<>>)
               => cleaned_labels[i] = Str_unknown_node

\* what identifies a result row of a hop query in the assertion made of it
RowKey(r) == <<r.subject_cui, r.subject_name, r.predicate, r.object_cui, r.object_name>>

\* the hop labels do not decrease along the list of assertions
HopLabelsNonDecreasing ==
    \A i \in 1..(Len(all_detailed_assertions) - 1) :
        HopOf(all_detailed_assertions[i]) <= HopOf(all_detailed_assertions[i + 1])

\* a step that adds assertions adds them at the end, labels them with the
\* hop of the loop, and adds one for each row the query of that hop returns
AssertionsLabelledByHop ==
    LET old == all_detailed_assertions
        new == all_detailed_assertions'
    IN  new # old =>
            /\ Len(new) > Len(old)
            /\ SubSeq(new, 1, Len(old)) = old
            /\ \A i \in (Len(old) + 1)..Len(new) : new[i].relationship_degree = _get_hop_name(hop_level)
            /\ {RowKey(new[i]) : i \in (Len(old) + 1)..Len(new)}
                  = {RowKey(r) : r \in fetch_n_hop_relationships(analyzer.db_ops, hop_level,
                                           IF hop_level = 1 THEN {} ELSE current_hop_cuis, predication).rows}

\* C28: in the list fetch_k_hop_relationships builds the hop labels never
\* decrease, so the assertions of hop h come before those of hop h+1, and
\* every assertion carries the label of the hop whose query returned it
C28_HopLabelsInOrder ==
    []HopLabelsNonDecreasing /\ [][AssertionsLabelledByHop]_vars

\* a list with assertions of the first, the second and the third hop
C28_Witness ==
    /\ pc = "done"
    /\ \A h \in 1..3 : AssertionsAt(h) # {}

\* every hop of the run has the same threshold
SameThresholdAtEveryHop ==
    /\ analyzer # <<>>
    /\ \A h \in 1..analyzer.db_ops.degree :
           Get(analyzer.db_ops.thresholds_by_degree, h, analyzer.db_ops.threshold)
               = Get(analyzer.db_ops.thresholds_by_degree, 1, analyzer.db_ops.threshold)

\* what the query of hop h retained: triples, names, counts and pmids
RetainedAt(h) ==
    {<<RowKey(a), a.evidence_count, DOMAIN a.pmid_data>> : a \in AssertionsAt(h)}

\* the assertions a run of degree k over the same rows would have listed
AssertionsUpTo(k) == SelectSeq(all_detailed_assertions, LAMBDA a : HopOf(a) <= k)

\* C29: when every hop has the same threshold, every hop from the third on
\* retains what the second hop retained, and the links and the edges of a
\* run of degree two or more are those of the run of degree two
C29_HigherHopsRepeatSecond ==
    SameThresholdAtEveryHop =>
        /\ \A h \in 3..(hop_level - 1) : RetainedAt(h) = RetainedAt(2)
        /\ (LinksBuilt /\ analyzer.db_ops.degree >= 2) =>
               Range(cui_based_links) = Range(CuiBasedLinks(AssertionsUpTo(2)))
        /\ (GraphBuilt /\ analyzer.db_ops.degree >= 2) =>
               all_edges = ConsolidatedEdges(CuiBasedLinks(AssertionsUpTo(2)), consolidated_mapping)

\* the i-th hop statement raises: its parameters do not fit its
\* placeholders, or the database raises an error on the statement of that hop
RaisingStatement(i) ==
    \/ BindingFails(statements[i].query, statements[i].params)
    \/ user_input.fault = "hop" /\ user_input.fault_hop = statements[i].hop_level

\* the run ended on the error of a hop query
HopQueryRaised == pc = "failed" /\ hop_level <= analyzer.db_ops.degree

\* a hop statement that raises is the last statement of the run, the run
\* ends with the exception, every hop was queried at most once, and no file
\* is written
ErrorEndsRun ==
    /\ \A i \in DOMAIN statements :
          RaisingStatement(i) => /\ HopQueryRaised
                                 /\ i = Len(statements)
                                 /\ statements[i].hop_level = hop_level
    /\ HopQueryRaised =>
          /\ result = "exception"
          /\ DOMAIN files = {}
          /\ cui_based_links = <<>>
          /\ \A i \in 1..(Len(statements) - 1) : statements[i].hop_level < statements[i + 1].hop_level

\* C30: when the query of a hop raises, the run ends with that exception:
\* no later hop is queried, no hop is queried again, no step follows, and
\* neither the DAG file nor the dossier nor performance_metrics.json exists
C30_HopErrorPropagates ==
    []ErrorEndsRun /\ [][pc # "failed"]_vars

\* the query of the second of three hops raised after the first hop had
\* retained assertions
C30_Witness ==
    /\ HopQueryRaised
    /\ user_input.mode = "general"
    /\ analyzer.db_ops.degree = 3
    /\ hop_level = 2
    /\ RaisingStatement(Len(statements))
    /\ all_detailed_assertions # <<>>

=============================================================================
